---- MODULE Spec2Model ----
(***************************************************************************)
(* A model of rerouter (src/src/rerouter/router.py): the grammar compiler  *)
(* RegExRoutePattern.from_meta_pattern, the token-sequence matcher         *)
(* RegExRoute.match, the accessors of RegExRouteMatch and the RegExRouter  *)
(* table with match and route_to.                                          *)
(*                                                                         *)
(* Strings are sequences of one-character strings.  A compiled regular     *)
(* expression (re.Pattern) is a record                                     *)
(*   [groups |-> sequence of capture groups, icase |-> BOOLEAN]            *)
(* whose groups are joined by a literal ":" and anchored by ^ and $; a     *)
(* group is [name |-> string, alts |-> sequence of branches]; a branch is  *)
(* a sequence of items [kind, c, rep]: one atom and its repetition.        *)
(***************************************************************************)
EXTENDS Integers, Sequences, FiniteSets, TLC

\* ------------------------------------------------------------------ bounds

\* Longest pattern sequence of a Route built in the matcher specification.
MaxPats == 3
\* Longest sentence, in tokens, handed to RegExRoute.match.
MaxToks == 3
\* Longest literal grammar token, in characters, in the literal specification.
MaxLitLen == 2
\* Longest route table built in the router specification.
MaxRoutes == 3

\* ---------------------------------------------------------------- alphabet

\* The characters of the model that \w matches.
WordChars ==
    {"a", "b", "c", "x", "y", "A", "_", "e", "f", "h", "i", "k", "l", "m", "n",
     "o", "p", "r", "t", "u", "v", "z"}

\* str.lower() on one character, as re.I compares characters.
Lower(ch) == IF ch = "A" THEN "a" ELSE ch

\* Python's None where a string stands (a quantifier, a target), and where
\* an object stands (a route, a result, a returned value).
None == "None"
NoneObj == [kind |-> "None"]

\* All sequences over S of length lo..hi.
SeqsOf(S, lo, hi) == UNION {[1..n -> S] : n \in lo..hi}

\* s[a:b] of Python for 1-based inclusive positions a..b.
Slice(s, a, b) == IF a > b THEN <<>> ELSE SubSeq(s, a, b)

\* " ".join(tokens)
RECURSIVE Join(_)
Join(tokens) ==
    IF tokens = <<>> THEN <<>>
    ELSE IF Len(tokens) = 1 THEN tokens[1]
    ELSE tokens[1] \o <<" ">> \o Join(Tail(tokens))

\* shlex.split(s) for strings without quote, escape or comment characters:
\* tokens are the maximal runs of non-blank characters.
RECURSIVE shlex_scan(_, _, _, _)
shlex_scan(s, i, cur, out) ==
    IF i > Len(s)
    THEN (IF cur = <<>> THEN out ELSE Append(out, cur))
    ELSE IF s[i] = " "
         THEN shlex_scan(s, i + 1, <<>>, IF cur = <<>> THEN out ELSE Append(out, cur))
         ELSE shlex_scan(s, i + 1, Append(cur, s[i]), out)

shlex_split(s) == shlex_scan(s, 1, <<>>, <<>>)

\* str.split(sep) for a one-character separator: the pieces between the
\* separators, empty pieces included.
RECURSIVE str_split_scan(_, _, _, _, _)
str_split_scan(s, sep, i, cur, out) ==
    IF i > Len(s) THEN Append(out, cur)
    ELSE IF s[i] = sep
         THEN str_split_scan(s, sep, i + 1, <<>>, Append(out, cur))
         ELSE str_split_scan(s, sep, i + 1, Append(cur, s[i]), out)

str_split(s, sep) == str_split_scan(s, sep, 1, <<>>, <<>>)

\* ------------------------------------------------- regular expressions (re)

\* re.compile of the body of a group that holds no alternation: a word
\* character or "-" is an atom matching itself, "." is the atom matching any
\* character, "+" repeats the item before it (greedy; a second "+" makes the
\* repetition possessive, CPython 3.11), and a "+" with nothing to repeat or
\* after a possessive item is an re.error.  The result is the sequence of
\* items, or the one-item sequence ReError.
ReError == << [kind |-> "error", c |-> "", rep |-> ""] >>

RECURSIVE re_parse_scan(_, _, _)
re_parse_scan(src, i, items) ==
    IF i > Len(src) THEN items
    ELSE IF src[i] = "+"
         THEN IF items = <<>> THEN ReError
              ELSE LET last == items[Len(items)]
                       init == SubSeq(items, 1, Len(items) - 1)
                   IN  IF last.rep = "one"
                       THEN re_parse_scan(src, i + 1, Append(init, [last EXCEPT !.rep = "plus"]))
                       ELSE IF last.rep = "plus"
                            THEN re_parse_scan(src, i + 1, Append(init, [last EXCEPT !.rep = "poss"]))
                            ELSE ReError
         ELSE IF src[i] = "."
              THEN re_parse_scan(src, i + 1, Append(items, [kind |-> "dot", c |-> "", rep |-> "one"]))
              ELSE re_parse_scan(src, i + 1, Append(items, [kind |-> "chr", c |-> src[i], rep |-> "one"]))

re_parse(src) == re_parse_scan(src, 1, <<>>)

\* Does one atom match one character (re.I folds case)?
AtomMatch(item, ch, icase) ==
    CASE item.kind = "dot" -> TRUE
      [] item.kind = "notcolon" -> ch # ":"
      [] OTHER -> IF icase THEN Lower(item.c) = Lower(ch) ELSE item.c = ch

\* Do items[i..] match s[j..hi] exactly?  A greedy repetition may stop
\* anywhere; a possessive one only where the atom matches no further.
RECURSIVE ItemsMatch(_, _, _, _, _, _)
ItemsMatch(items, i, s, j, hi, icase) ==
    IF i > Len(items) THEN j > hi
    ELSE /\ j <= hi
         /\ AtomMatch(items[i], s[j], icase)
         /\ \/ /\ \/ items[i].rep # "poss"
                  \/ j + 1 > hi
                  \/ ~AtomMatch(items[i], s[j + 1], icase)
               /\ ItemsMatch(items, i + 1, s, j + 1, hi, icase)
            \/ /\ items[i].rep # "one"
               /\ ItemsMatch(items, i, s, j + 1, hi, icase)

\* Does a group (one of its alternatives) match s[lo..hi] exactly?
GroupMatch(g, s, lo, hi, icase) ==
    \E k \in 1..Len(g.alts) : ItemsMatch(g.alts[k], 1, s, lo, hi, icase)

\* The spans <<lo, hi>> of the groups of pat on s when "^g1$" or "^g1:g2$"
\* matches the whole of s; the empty set when it does not.
GroupSpans(pat, s) ==
    IF Len(pat.groups) = 1
    THEN IF GroupMatch(pat.groups[1], s, 1, Len(s), pat.icase)
         THEN {<< <<1, Len(s)>> >>} ELSE {}
    ELSE {<< <<1, k - 1>>, <<k + 1, Len(s)>> >> : k \in
            {k \in 1..Len(s) : /\ s[k] = ":"
                               /\ GroupMatch(pat.groups[1], s, 1, k - 1, pat.icase)
                               /\ GroupMatch(pat.groups[2], s, k + 1, Len(s), pat.icase)}}

\* bool(pat.match(arg)): a Match object is always true, None is false.
PatMatches(pat, arg) == GroupSpans(pat, arg) # {}

\* ------------------------------------------------------- RegExRoutePattern

AllIn(s, S) == \A i \in 1..Len(s) : s[i] \in S

\* The position of the first ch in s, 0 when there is none.
IndexOf(s, ch) ==
    IF \E i \in 1..Len(s) : s[i] = ch
    THEN CHOOSE i \in 1..Len(s) : s[i] = ch /\ \A j \in 1..(i - 1) : s[j] # ch
    ELSE 0

\* ^[\w.+-]+$
META_PAT_LITERAL(rule) ==
    Len(rule) >= 1 /\ AllIn(rule, WordChars \cup {".", "+", "-"})

\* ^\([\w|]+\)$
META_PAT_FILTER_ANON(rule) ==
    /\ Len(rule) >= 3
    /\ rule[1] = "(" /\ rule[Len(rule)] = ")"
    /\ AllIn(Slice(rule, 2, Len(rule) - 1), WordChars \cup {"|"})

\* ^<(\w+)>$
META_PAT_NAMED_ARG(rule) ==
    /\ Len(rule) >= 3
    /\ rule[1] = "<" /\ rule[Len(rule)] = ">"
    /\ AllIn(Slice(rule, 2, Len(rule) - 1), WordChars)

\* ^<(\w+)\(([\w|]+)\)>$
META_PAT_NAMED_ARG_FILTER(rule) ==
    LET n == Len(rule)
        o == IndexOf(rule, "(")
    IN  /\ n >= 6
        /\ rule[1] = "<" /\ rule[n] = ">" /\ rule[n - 1] = ")"
        /\ o >= 3 /\ o <= n - 3
        /\ AllIn(Slice(rule, 2, o - 1), WordChars)
        /\ AllIn(Slice(rule, o + 1, n - 2), WordChars \cup {"|"})

\* ^\[([^\[\] ]+)]([*+]?)$ : the position of the closing bracket, 0 when the
\* rule is no wrapper.
META_PAT_OPTIONAL_OPT(rule) ==
    LET n == Len(rule)
        e == IF n >= 1 /\ rule[n] \in {"*", "+"} THEN n - 1 ELSE n
    IN  IF /\ e >= 3
           /\ rule[1] = "[" /\ rule[e] = "]"
           /\ \A i \in 2..(e - 1) : rule[i] \notin {"[", "]", " "}
        THEN e ELSE 0

\* The alternatives a|b|c of a filter, each a sequence of literal atoms.
FilterAlts(f) ==
    LET parts == str_split(f, "|")
    IN  [k \in 1..Len(parts) |->
            [i \in 1..Len(parts[k]) |-> [kind |-> "chr", c |-> parts[k][i], rep |-> "one"]]]

\* RegExRoutePattern(pat, ext)
RegExRoutePattern(pat, ext) == [ok |-> TRUE, pat |-> pat, ext |-> ext]

\* An exception leaving a call.
Raise(err) == [ok |-> FALSE, err |-> err]

\* The literal form of from_meta_pattern: re.compile(f"^({rule})$", re.I).
CompileLiteral(rule) ==
    LET items == re_parse(rule)
    IN  IF items = ReError THEN Raise("re.error")
        ELSE RegExRoutePattern(
                [groups |-> << [name |-> <<>>, alts |-> <<items>>] >>, icase |-> TRUE], None)

\* RegExRoutePattern.from_meta_pattern(rule)
RECURSIVE from_meta_pattern(_)
from_meta_pattern(rule) ==
    IF META_PAT_LITERAL(rule) THEN CompileLiteral(rule)
    ELSE IF META_PAT_FILTER_ANON(rule)
    THEN RegExRoutePattern(
            [groups |-> << [name |-> <<>>,
                            alts |-> FilterAlts(Slice(rule, 2, Len(rule) - 1))] >>,
             icase |-> TRUE], None)
    ELSE IF META_PAT_NAMED_ARG(rule)
    THEN RegExRoutePattern(
            [groups |-> << [name |-> Slice(rule, 2, Len(rule) - 1),
                            alts |-> << << [kind |-> "notcolon", c |-> "", rep |-> "plus"] >> >>] >>,
             icase |-> TRUE], None)
    ELSE IF META_PAT_NAMED_ARG_FILTER(rule)
    THEN LET o == IndexOf(rule, "(")
         IN  RegExRoutePattern(
                [groups |-> << [name |-> Slice(rule, 2, o - 1),
                                alts |-> FilterAlts(Slice(rule, o + 1, Len(rule) - 2))] >>,
                 icase |-> TRUE], None)
    ELSE IF META_PAT_OPTIONAL_OPT(rule) # 0
    THEN LET e == META_PAT_OPTIONAL_OPT(rule)
             ext == Slice(rule, e + 1, Len(rule))
             p_sub == from_meta_pattern(Slice(rule, 2, e - 1))
         IN  IF ~p_sub.ok THEN p_sub
             ELSE IF p_sub.ext # None THEN Raise("SyntaxError")
             ELSE RegExRoutePattern(p_sub.pat, IF ext = <<>> THEN "?" ELSE ext[1])
    ELSE LET splits == str_split(rule, ":")
         IN  IF Len(splits) # 2 THEN Raise("SyntaxError")
             ELSE LET lp == from_meta_pattern(splits[1])
                      rp == from_meta_pattern(splits[2])
                  IN  IF ~lp.ok THEN lp
                      ELSE IF ~rp.ok THEN rp
                      ELSE IF lp.ext # None \/ rp.ext # None THEN Raise("SyntaxError")
                      ELSE IF /\ lp.pat.groups[1].name # <<>>
                              /\ lp.pat.groups[1].name = rp.pat.groups[1].name
                      THEN Raise("re.error")
                      ELSE RegExRoutePattern(
                              [groups |-> lp.pat.groups \o rp.pat.groups, icase |-> TRUE],
                              None)

\* RegExRoutePattern.match(arg), as a truth value.
pattern_match(p, arg) == PatMatches(p.pat, arg)

\* ---------------------------------------------------------------- RegExRoute

\* RegExRoute(target, grammar=grammar): the patterns are the compiled tokens
\* of the grammar; the first token that does not compile raises its error, and
\* an empty grammar raises RegExRouteError.
RegExRouteInit(target, grammar) ==
    IF grammar = <<>> THEN Raise("RegExRouteError")
    ELSE LET rules == shlex_split(grammar)
             ps == [i \in 1..Len(rules) |-> from_meta_pattern(rules[i])]
             bad == {i \in 1..Len(rules) : ~ps[i].ok}
         IN  IF bad # {}
             THEN ps[CHOOSE i \in bad : \A j \in bad : i <= j]
             ELSE [ok |-> TRUE, target |-> target, grammar |-> grammar,
                   patterns |-> [i \in 1..Len(rules) |-> [pat |-> ps[i].pat, ext |-> ps[i].ext]]]

\* The cells of the table dp and the slots of matches: Python's None, the
\* one zero-width Match object em, or the Match object that pattern number re
\* (counted from 0) made of the token string.
NoneCell == [kind |-> "None", re |-> 0, string |-> <<>>]
em == [kind |-> "em", re |-> 0, string |-> <<>>]
MatchObj(pi, token) == [kind |-> "m", re |-> pi, string |-> token]

\* The truth value of a cell: every Match object is true, None is false.
Truthy(cell) == cell # NoneCell

Optionals == {"?", "*"}
Repeats == {"*", "+"}

\* BaseRow with the first row left unreachable past cell (0, 0): no pattern
\* may contribute zero tokens before the first token.
RECURSIVE BaseRow_NoZeroWidth(_, _, _)
BaseRow_NoZeroWidth(patterns, row, pi) ==
    IF pi >= Len(patterns) THEN row
    ELSE BaseRow_NoZeroWidth(patterns, [row EXCEPT ![pi + 1] = NoneCell], pi + 1)

\* A first row that marks every optional pattern zero-width without
\* reading the cell before it.
RECURSIVE BaseRow_IgnoresPredecessor(_, _, _)
BaseRow_IgnoresPredecessor(patterns, row, pi) ==
    IF pi >= Len(patterns) THEN row
    ELSE BaseRow_IgnoresPredecessor(patterns,
                 [row EXCEPT ![pi + 1] =
                     IF patterns[pi + 1].ext \in Optionals THEN em ELSE NoneCell],
                 pi + 1)

\* Lines 243-250 of RegExRoute.match: the empty slots, the empty table and
\* its first row.
RECURSIVE BaseRow(_, _, _)
BaseRow(patterns, row, pi) ==
    IF pi >= Len(patterns) THEN row
    ELSE BaseRow(patterns,
                 [row EXCEPT ![pi + 1] =
                     IF row[pi] = em /\ patterns[pi + 1].ext \in Optionals
                     THEN em ELSE NoneCell],
                 pi + 1)

\* The empty table with its first column open: cell (si + 1, 0) is
\* zero-width in every row.
InitTable_FirstColumnOpen(patterns, splits) ==
    LET ns == Len(splits)
        np == Len(patterns)
        row0 == BaseRow(patterns, [p \in 0..np |-> IF p = 0 THEN em ELSE NoneCell], 0)
    IN  [dp |-> [s \in 0..ns |-> IF s = 0 THEN row0 ELSE [p \in 0..np |-> IF p = 0 THEN em ELSE NoneCell]],
         matches |-> [s \in 0..(ns - 1) |-> NoneCell],
         rules |-> [s \in 0..(ns - 1) |-> [p \in 0..(np - 1) |-> "unvisited"]]]

InitTable(patterns, splits) ==
    LET ns == Len(splits)
        np == Len(patterns)
        row0 == BaseRow(patterns, [p \in 0..np |-> IF p = 0 THEN em ELSE NoneCell], 0)
    IN  [dp |-> [s \in 0..ns |-> IF s = 0 THEN row0 ELSE [p \in 0..np |-> NoneCell]],
         matches |-> [s \in 0..(ns - 1) |-> NoneCell],
         rules |-> [s \in 0..(ns - 1) |-> [p \in 0..(np - 1) |-> "unvisited"]]]

\* CellRule with the repeat transition open to every quantifier.
CellRule_RepeatAnyQuantifier(dp, patterns, splits, si, pi) ==
    LET ext == patterns[pi + 1].ext
    IN  IF PatMatches(patterns[pi + 1].pat, splits[si + 1])
        THEN IF Truthy(dp[si][pi]) THEN "diagonal"
             ELSE IF dp[si][pi + 1] = em /\ ext \in Optionals THEN "top-down into"
             ELSE IF Truthy(dp[si][pi + 1]) /\ dp[si][pi + 1] # em THEN "top-down repeat"
             ELSE IF dp[si + 1][pi] = em /\ ext \in Optionals THEN "left-right"
             ELSE "none"
        ELSE IF Truthy(dp[si + 1][pi]) /\ ext \in Optionals THEN "skip"
             ELSE "none"

\* CellRule with the diagonal transition taken from a zero-width cell only.
CellRule_DiagonalFromZeroWidth(dp, patterns, splits, si, pi) ==
    LET ext == patterns[pi + 1].ext
    IN  IF PatMatches(patterns[pi + 1].pat, splits[si + 1])
        THEN IF dp[si][pi] = em THEN "diagonal"
             ELSE IF dp[si][pi + 1] = em /\ ext \in Optionals THEN "top-down into"
             ELSE IF Truthy(dp[si][pi + 1]) /\ dp[si][pi + 1] # em /\ ext \in Repeats
                  THEN "top-down repeat"
             ELSE IF dp[si + 1][pi] = em /\ ext \in Optionals THEN "left-right"
             ELSE "none"
        ELSE IF Truthy(dp[si + 1][pi]) /\ ext \in Optionals THEN "skip"
             ELSE "none"

\* CellRule with the skip transition open to every quantifier.
CellRule_SkipAnyQuantifier(dp, patterns, splits, si, pi) ==
    LET ext == patterns[pi + 1].ext
    IN  IF PatMatches(patterns[pi + 1].pat, splits[si + 1])
        THEN IF Truthy(dp[si][pi]) THEN "diagonal"
             ELSE IF dp[si][pi + 1] = em /\ ext \in Optionals THEN "top-down into"
             ELSE IF Truthy(dp[si][pi + 1]) /\ dp[si][pi + 1] # em /\ ext \in Repeats
                  THEN "top-down repeat"
             ELSE IF dp[si + 1][pi] = em /\ ext \in Optionals THEN "left-right"
             ELSE "none"
        ELSE IF Truthy(dp[si + 1][pi]) THEN "skip"
             ELSE "none"

\* The transition that the body of the inner loop (lines 254-281) takes for
\* token si and pattern pi in table dp.
CellRule(dp, patterns, splits, si, pi) ==
    LET ext == patterns[pi + 1].ext
    IN  IF PatMatches(patterns[pi + 1].pat, splits[si + 1])
        THEN IF Truthy(dp[si][pi]) THEN "diagonal"
             ELSE IF dp[si][pi + 1] = em /\ ext \in Optionals THEN "top-down into"
             ELSE IF Truthy(dp[si][pi + 1]) /\ dp[si][pi + 1] # em /\ ext \in Repeats
                  THEN "top-down repeat"
             ELSE IF dp[si + 1][pi] = em /\ ext \in Optionals THEN "left-right"
             ELSE "none"
        ELSE IF Truthy(dp[si + 1][pi]) /\ ext \in Optionals THEN "skip"
             ELSE "none"

\* One pass of the body of the inner loop: the table, the slots and the log
\* of the transitions taken, after token si met pattern pi.
CellStep(st, patterns, splits, si, pi) ==
    LET rule == CellRule(st.dp, patterns, splits, si, pi)
        m == MatchObj(pi, splits[si + 1])
        logged == [st EXCEPT !.rules[si][pi] = rule]
    IN  IF rule \in {"diagonal", "top-down into", "top-down repeat", "left-right"}
        THEN [logged EXCEPT !.matches[si] = m, !.dp[si + 1][pi + 1] = m]
        ELSE IF rule = "skip"
        THEN [logged EXCEPT
                !.matches[si] = IF st.dp[si + 1][pi] # em THEN st.dp[si + 1][pi] ELSE @,
                !.dp[si + 1][pi + 1] = em]
        ELSE logged

\* The two loops of lines 251-281, pass k onwards: token k \div np meets
\* pattern k % np.
RECURSIVE DPLoop(_, _, _, _)
DPLoop(st, patterns, splits, k) ==
    LET np == Len(patterns)
    IN  IF np = 0 \/ k >= Len(splits) * np THEN st
        ELSE DPLoop(CellStep(st, patterns, splits, k \div np, k % np),
                    patterns, splits, k + 1)

\* The states the table goes through: before pass k and after every pass
\* from k on.
RECURSIVE DPTrace(_, _, _, _)
DPTrace(st, patterns, splits, k) ==
    LET np == Len(patterns)
    IN  IF np = 0 \/ k >= Len(splits) * np THEN <<st>>
        ELSE <<st>> \o DPTrace(CellStep(st, patterns, splits, k \div np, k % np),
                               patterns, splits, k + 1)

\* The table, slots and log when the loops of RegExRoute.match have ended.
DPRun(patterns, splits) == DPLoop(InitTable(patterns, splits), patterns, splits, 0)

\* A conclusion drawn from the slots alone, the last cell unread.
Conclusion_SlotsOnly(st, ns, np) ==
    ~\E i \in 0..(ns - 1) : st.matches[i] = NoneCell \/ st.matches[i] = em

\* Lines 282-284: the conclusion drawn from the finished table.
Conclusion(st, ns, np) ==
    ~(\/ st.dp[ns][np] = NoneCell
      \/ \E i \in 0..(ns - 1) : st.matches[i] = NoneCell \/ st.matches[i] = em)

\* RegExRoute.match(sentence): the RegExRouteMatch it returns.
RouteMatch(r, sentence) ==
    LET splits == shlex_split(sentence)
        st == DPRun(r.patterns, splits)
    IN  [conclusion |-> Conclusion(st, Len(splits), Len(r.patterns)),
         matches |-> st.matches,
         grammar |-> r.grammar,
         target |-> r.target]

\* ---------------------------------------------------------- RegExRouteMatch

\* The groups() of the Match object in slot m: the text of each group.
\* len(self.matches): one slot per token, indexed from 0.
NSlots(res) == Cardinality(DOMAIN res.matches)

Groups(patterns, m) ==
    LET spans == CHOOSE sp \in GroupSpans(patterns[m.re + 1].pat, m.string) : TRUE
    IN  [g \in 1..Len(spans) |-> Slice(m.string, spans[g][1], spans[g][2])]

\* RegExRouteMatch.positional(idx) on the result res of a Route with the
\* given patterns: IndexError out of range, None for an empty slot, the one
\* group, or the tuple of groups.
\* positional without the range check of positional_x: the list is indexed
\* as Python indexes it, a negative index counting from the end.
positional_NegativeWraps(res, patterns, idx) ==
    IF ~(-NSlots(res) <= idx /\ idx < NSlots(res)) THEN Raise("IndexError")
    ELSE LET m == res.matches[IF idx < 0 THEN idx + NSlots(res) ELSE idx]
         IN  IF ~Truthy(m) THEN NoneObj
             ELSE IF Len(Groups(patterns, m)) = 1
                  THEN [kind |-> "str", v |-> Groups(patterns, m)[1]]
                  ELSE [kind |-> "tuple", v |-> Groups(patterns, m)]

positional(res, patterns, idx) ==
    IF ~(0 <= idx /\ idx < NSlots(res)) THEN Raise("IndexError")
    ELSE LET m == res.matches[idx]
         IN  IF ~Truthy(m) THEN NoneObj
             ELSE IF Len(Groups(patterns, m)) = 1
                  THEN [kind |-> "str", v |-> Groups(patterns, m)[1]]
                  ELSE [kind |-> "tuple", v |-> Groups(patterns, m)]

\* The groupdict() of the Match object in slot m: the names of its named
\* groups.
GroupNames(patterns, m) ==
    {patterns[m.re + 1].pat.groups[g].name :
        g \in {g \in 1..Len(patterns[m.re + 1].pat.groups) :
                 patterns[m.re + 1].pat.groups[g].name # <<>>}}

\* m.group(name) for a name of groupdict().
GroupNamed(patterns, m, name) ==
    LET gs == patterns[m.re + 1].pat.groups
        g == CHOOSE g \in 1..Len(gs) : gs[g].name = name
    IN  Groups(patterns, m)[g]

\* The loop of RegExRouteMatch.named (lines 108-114) from slot i on: the
\* lists opts and named_args.
RECURSIVE named_scan(_, _, _, _, _)
named_scan(res, patterns, name, i, acc) ==
    IF i >= NSlots(res) THEN acc
    ELSE LET m == res.matches[i]
         IN  IF ~Truthy(m) THEN named_scan(res, patterns, name, i + 1, acc)
             ELSE named_scan(res, patterns, name, i + 1,
                    [named_args |->
                        IF name \in GroupNames(patterns, m)
                        THEN Append(acc.named_args, GroupNamed(patterns, m, name))
                        ELSE acc.named_args,
                     opts |->
                        IF /\ Len(Groups(patterns, m)) = 2
                           /\ Groups(patterns, m)[1] = name
                        THEN Append(acc.opts, Groups(patterns, m)[2])
                        ELSE acc.opts])

\* Flat with "first wins": a flat call returns the first element of any list.
Flat_FirstWins(list, flat) ==
    IF Len(list) >= 1 /\ flat THEN [kind |-> "str", v |-> list[1]]
    ELSE [kind |-> "list", v |-> list]

\* What named returns for a list: the single string or the list.
Flat(list, flat) ==
    IF Len(list) = 1 /\ flat THEN [kind |-> "str", v |-> list[1]]
    ELSE [kind |-> "list", v |-> list]

\* named with the precedence reversed: the declared groups are preferred to
\* the values of the key/value pairs.
named_DeclaredFirst(res, patterns, name, flat, null_error) ==
    LET acc == named_scan(res, patterns, name, 0, [named_args |-> <<>>, opts |-> <<>>])
    IN  IF acc.named_args # <<>> THEN Flat(acc.named_args, flat)
        ELSE IF acc.opts = <<>> /\ null_error THEN Raise("KeyError")
        ELSE Flat(acc.opts, flat)

\* RegExRouteMatch.named(name, flat, null_error) on the result res of a
\* Route with the given patterns.
named(res, patterns, name, flat, null_error) ==
    LET acc == named_scan(res, patterns, name, 0, [named_args |-> <<>>, opts |-> <<>>])
    IN  IF acc.opts # <<>> THEN Flat(acc.opts, flat)
        ELSE IF acc.named_args = <<>> /\ null_error THEN Raise("KeyError")
        ELSE Flat(acc.named_args, flat)

\* ------------------------------------------------------------------- state

VARIABLES
    grammar,    \* the grammar handed to RegExRoute(...), empty before
    route,      \* the RegExRoute under test or the error its construction
                \* raised, NoneObj before
    sentence,   \* the sentence last handed to route.match, empty before
    result,     \* the RegExRouteMatch it returned, NoneObj before
    routes,     \* RegExRouter.routes
    op,         \* the method of the call on the router whose outcome the
                \* caller holds: "route", "match", "route_to", or None
    pc,         \* where route_to stands: "idle" (no call in progress),
                \* "invoke", "running" (the target runs), "return"
    cmd,        \* the string handed to the last call: the grammar of route,
                \* the sentence of match or route_to
    args,       \* the extra arguments of the last call of route_to
    cur,        \* the RegExRouteMatch that route_to holds in m
    ret,        \* what the last call on the router returned or raised
    calls,      \* the runs of targets started by the last call: target,
                \* arguments and whether the run has completed
    th          \* per thread calling router.match: where it stands in the
                \* loop of match ("idle", "loop", "done"), its sentence c,
                \* the index i of the next Route, its list matched, and
                \* what its call returned or raised

vars == <<grammar, route, sentence, result, routes, op, pc, cmd, args, cur, ret, calls, th>>

routeVars == <<grammar, route, sentence, result>>
routerVars == <<routes, op, pc, cmd, args, cur, ret, calls>>
threadVars == <<th>>

\* The threads that call router.match side by side.
Threads == {1, 2}
IdleThread == [pc |-> "idle", c |-> <<>>, i |-> 0, matched |-> <<>>, out |-> NoneObj]

\* ---------------------------------------------------- inputs of the matcher

\* The tokens of the sentences: three distinct one-character words.
Tokens == {<<"a">>, <<"b">>, <<"c">>}

\* The grammar tokens: the literal a bare and under each quantifier, the
\* literal b, the literal c repeated, and the named argument <x> bare and
\* optional.
Rules ==
    { <<"a">>, <<"[", "a", "]">>, <<"[", "a", "]", "*">>, <<"[", "a", "]", "+">>,
      <<"b">>, <<"[", "c", "]", "*">>,
      <<"<", "x", ">">>, <<"[", "<", "x", ">", "]">> }

Grammars == {Join(g) : g \in SeqsOf(Rules, 1, MaxPats)}
Sentences == {Join(t) : t \in SeqsOf(Tokens, 0, MaxToks)}

\* The inputs of the literal specification: grammars of one or two literal
\* tokens over letters, ".", "+" and "-", and sentences of one token or of
\* the tokens of the grammar itself.
LitChars == {"a", "A", "b", ".", "+", "-"}
Literals == SeqsOf(LitChars, 1, MaxLitLen)
LitGrammars == {Join(g) : g \in SeqsOf(Literals, 1, 2)}

\* ------------------------------------------------------ RegExRoute as state

InitRoute ==
    /\ grammar = <<>>
    /\ route = NoneObj
    /\ sentence = <<>>
    /\ result = NoneObj

InitRouter ==
    /\ routes = <<>>
    /\ op = None
    /\ pc = "idle"
    /\ cmd = <<>>
    /\ args = <<>>
    /\ cur = NoneObj
    /\ ret = NoneObj
    /\ calls = <<>>
    /\ th = [t \in Threads |-> IdleThread]

Init == InitRoute /\ InitRouter

\* route = RegExRoute(target, grammar=g) for a grammar g of G
Build(G) ==
    /\ route = NoneObj
    /\ \E g \in G :
        /\ grammar' = g
        /\ route' = RegExRouteInit("f", g)
    /\ UNCHANGED <<sentence, result>>
    /\ UNCHANGED <<routerVars, threadVars>>

\* result = route.match(s) for a sentence s of S, by a caller that holds no
\* earlier result.
Match(S) ==
    /\ route # NoneObj
    /\ route.ok
    /\ result = NoneObj
    /\ \E s \in S :
        /\ sentence' = s
        /\ result' = RouteMatch(route, s)
    /\ UNCHANGED <<grammar, route>>
    /\ UNCHANGED <<routerVars, threadVars>>

\* The caller has read the conclusion of the result and drops it.
Discard ==
    /\ result # NoneObj
    /\ sentence' = <<>>
    /\ result' = NoneObj
    /\ UNCHANGED <<grammar, route>>
    /\ UNCHANGED <<routerVars, threadVars>>

Next ==
    \/ Build(Grammars)
    \/ Match(Sentences)
    \/ Discard

Spec == Init /\ [][Next]_vars

NextLit ==
    \/ Build(LitGrammars)
    \/ Match(Literals \cup {grammar})
    \/ Discard

SpecLit == Init /\ [][NextLit]_vars

\* The inputs of the table specification: the quantifiers on one literal and
\* a second optional pattern, against the sentences over the three tokens.
CellRules ==
    { <<"a">>, <<"[", "a", "]">>, <<"[", "a", "]", "*">>, <<"[", "a", "]", "+">>,
      <<"[", "c", "]", "*">> }
CellGrammars == {Join(g) : g \in SeqsOf(CellRules, 1, MaxPats)}

NextCells ==
    \/ Build(CellGrammars)
    \/ Match(Sentences)
    \/ Discard

SpecCells == Init /\ [][NextCells]_vars

\* The inputs of the capture specification: grammars with named arguments
\* and colon pairs, and sentences of plain tokens and key:value tokens.
CaptureGrammars ==
    { <<"[", "<", "f", "i", "l", "t", "e", "r", "_", "n", "a", "m", "e", ">", ":", "<", "f", "i", "l", "t", "e", "r", "_", "v", "a", "l", "u", "e", ">", "]", "+">>,
      <<"<", "y", ">", " ", "[", "<", "f", "i", "l", "t", "e", "r", "_", "n", "a", "m", "e", ">", ":", "<", "f", "i", "l", "t", "e", "r", "_", "v", "a", "l", "u", "e", ">", "]", "*">>,
      <<"[", "<", "y", ">", "]", "*", " ", "<", "f", "i", "l", "t", "e", "r", "_", "n", "a", "m", "e", ">", ":", "<", "f", "i", "l", "t", "e", "r", "_", "v", "a", "l", "u", "e", ">">>,
      <<"<", "y", ">", ":", "<", "z", ">">> }
CaptureTokens ==
    { <<"+", "p", "a", "t", "h", ":", "x">>, <<"-", "f", "o", "r", "k", ":", "y">>, <<"+", "p", "a", "t", "h", ":", "z">>,
      <<"y">>, <<"y", ":", "z">> }
CaptureSentences == {Join(t) : t \in SeqsOf(CaptureTokens, 0, MaxToks)}

NextCapture ==
    \/ Build(CaptureGrammars)
    \/ Match(CaptureSentences)
    \/ Discard

SpecCapture == Init /\ [][NextCapture]_vars

\* -------------------------------------------------------------- RegExRouter

\* What a call returned.
Return(v) == [ok |-> TRUE, value |-> v]

\* MatchedFrom keeping, for a target, its last success instead of its first.
RECURSIVE MatchedFrom_KeepLast(_, _, _, _)
MatchedFrom_KeepLast(rs, c, i, matched) ==
    IF i > Len(rs) THEN matched
    ELSE LET m == RouteMatch(rs[i], c)
         IN  MatchedFrom_KeepLast(rs, c, i + 1,
                IF ~m.conclusion THEN matched
                ELSE IF \E k \in 1..Len(matched) : m.target = matched[k].target
                THEN [k \in 1..Len(matched) |->
                        IF m.target = matched[k].target THEN m ELSE matched[k]]
                ELSE Append(matched, m))

\* The loop of RegExRouter.match (lines 323-329) from route number i on: the
\* successful results, a target kept only for its first success.
RECURSIVE MatchedFrom(_, _, _, _)
MatchedFrom(rs, c, i, matched) ==
    IF i > Len(rs) THEN matched
    ELSE LET m == RouteMatch(rs[i], c)
         IN  MatchedFrom(rs, c, i + 1,
                IF m.conclusion /\ ~\E k \in 1..Len(matched) : m.target = matched[k].target
                THEN Append(matched, m) ELSE matched)

\* RegExRouter.match answering an ambiguous sentence with its first match.
RouterMatch_AmbiguityReturnsFirst(rs, c) ==
    LET matched == MatchedFrom(rs, c, 1, <<>>)
    IN  IF matched = <<>> THEN Raise("RegExParseError")
        ELSE Return(matched[1])

\* RegExRouter.match answering an ambiguous sentence with its last match.
RouterMatch_AmbiguityReturnsLast(rs, c) ==
    LET matched == MatchedFrom(rs, c, 1, <<>>)
    IN  IF matched = <<>> THEN Raise("RegExParseError")
        ELSE Return(matched[Len(matched)])

\* RegExRouter.match(c) on the table rs.
RouterMatch(rs, c) ==
    LET matched == MatchedFrom(rs, c, 1, <<>>)
    IN  IF matched = <<>> THEN Raise("RegExParseError")
        ELSE IF Len(matched) > 1 THEN Raise("RegExRouteError")
        ELSE Return(matched[1])

\* The targets: f and g are plain functions, h is a coroutine function.
Targets == {"f", "g", "h"}
iscoroutinefunction(t) == t = "h"

\* route_to without the asyncio.run branch: every target is just called.
Driver_CallOnly(t) == "call"

\* Lines 338-340 of route_to: how the target t is run.
Driver(t) == IF iscoroutinefunction(t) THEN "asyncio.run" ELSE "call"

\* What a target returns when its run completes: its name and what it was
\* called with.
TargetValue(call) == [kind |-> "result", by |-> call.target, m |-> call.m, args |-> call.args]

\* What calling a coroutine function returns: a coroutine that has not run.
Coroutine(t, m, a) == [kind |-> "coroutine", by |-> t, m |-> m, args |-> a]

\* The grammars, sentences and extra arguments handed to the router.
RouterGrammars ==
    { <<"a">>, <<"<", "x", ">">>, <<"[", "a", "]", "*", " ", "b">> }
BadGrammars == { <<>>, <<"[", "[", "a", "]", "]">>, <<"a", " ", "+">> }
RouterSentences ==
    { <<>>, <<"a">>, <<"b">>, <<"a", " ", "b">> }
ExtraArgs == { <<>>, <<"k">> }

\* A decorator that appends a Route before the grammar is checked and
\* compiled: a failed registration leaves a Route without patterns behind.
Register_AppendsBeforeCompile(GS, TS) ==
    /\ pc = "idle" /\ op = None
    /\ Len(routes) < MaxRoutes
    /\ \E g \in GS, t \in TS :
        LET r == IF g = <<>> THEN Raise("RegExRouteError") ELSE RegExRouteInit(t, g)
        IN  /\ routes' = IF r.ok THEN Append(routes, r)
                         ELSE Append(routes, [ok |-> TRUE, target |-> t, grammar |-> g,
                                              patterns |-> <<>>])
            /\ ret' = IF r.ok THEN Return([kind |-> "target", by |-> t]) ELSE r
            /\ cmd' = g
    /\ op' = "route"
    /\ calls' = <<>>
    /\ UNCHANGED <<pc, args, cur>>
    /\ UNCHANGED <<routeVars, threadVars>>

\* @router.route(g) applied to the target t (lines 296-300), for a grammar
\* g of GS and a target t of TS.
Register(GS, TS) ==
    /\ pc = "idle" /\ op = None
    /\ Len(routes) < MaxRoutes
    /\ \E g \in GS, t \in TS :
        LET r == IF g = <<>> THEN Raise("RegExRouteError") ELSE RegExRouteInit(t, g)
        IN  /\ routes' = IF r.ok THEN Append(routes, r) ELSE routes
            /\ ret' = IF r.ok THEN Return([kind |-> "target", by |-> t]) ELSE r
            /\ cmd' = g
    /\ op' = "route"
    /\ calls' = <<>>
    /\ UNCHANGED <<pc, args, cur>>
    /\ UNCHANGED <<routeVars, threadVars>>

\* router.match(c) with a move-to-front table: the Route that matched is
\* moved to the head of routes.
RouterMatchCall_MovesMatchToFront ==
    /\ pc = "idle" /\ op = None
    /\ \E c \in RouterSentences :
        LET r == RouterMatch(routes, c)
            hit == {i \in 1..Len(routes) :
                        r.ok /\ routes[i].grammar = r.value.grammar
                             /\ routes[i].target = r.value.target}
            h == CHOOSE i \in hit : \A j \in hit : i <= j
        IN  /\ cmd' = c
            /\ ret' = r
            /\ routes' = IF hit = {} THEN routes
                         ELSE <<routes[h]>> \o SubSeq(routes, 1, h - 1)
                                            \o SubSeq(routes, h + 1, Len(routes))
    /\ op' = "match"
    /\ calls' = <<>>
    /\ UNCHANGED <<pc, args, cur>>
    /\ UNCHANGED <<routeVars, threadVars>>

\* router.match(c)
RouterMatchCall ==
    /\ pc = "idle" /\ op = None
    /\ \E c \in RouterSentences :
        /\ cmd' = c
        /\ ret' = RouterMatch(routes, c)
    /\ op' = "match"
    /\ calls' = <<>>
    /\ UNCHANGED <<routes, pc, args, cur>>
    /\ UNCHANGED <<routeVars, threadVars>>

\* router.route_to(c, *a) up to line 337: m = self.match(c), whose error
\* leaves route_to at once.
RouteTo ==
    /\ pc = "idle" /\ op = None
    /\ \E c \in RouterSentences, a \in ExtraArgs :
        LET r == RouterMatch(routes, c)
        IN  /\ cmd' = c
            /\ args' = a
            /\ cur' = IF r.ok THEN r.value ELSE NoneObj
            /\ ret' = IF r.ok THEN NoneObj ELSE r
            /\ pc' = IF r.ok THEN "invoke" ELSE "idle"
    /\ op' = "route_to"
    /\ calls' = <<>>
    /\ UNCHANGED routes
    /\ UNCHANGED <<routeVars, threadVars>>

\* Lines 338-340: m.target(m, *args) is called.  A plain function runs; a
\* coroutine function returns a coroutine, which runs only under asyncio.run
\* and is otherwise returned as it is.  route_to is called from synchronous
\* code (no event loop is running), and a run that starts completes.
Invoke ==
    /\ pc = "invoke"
    /\ IF iscoroutinefunction(cur.target) /\ Driver(cur.target) # "asyncio.run"
       THEN /\ ret' = Return(Coroutine(cur.target, cur, args))
            /\ pc' = "idle"
            /\ cur' = NoneObj
            /\ UNCHANGED calls
       ELSE /\ calls' = Append(calls, [target |-> cur.target, m |-> cur, args |-> args,
                                       done |-> FALSE])
            /\ pc' = "running"
            /\ UNCHANGED <<ret, cur>>
    /\ UNCHANGED <<routes, op, cmd, args>>
    /\ UNCHANGED <<routeVars, threadVars>>

\* The run of the target completes.
TargetDone ==
    /\ pc = "running"
    /\ calls' = [calls EXCEPT ![Len(calls)].done = TRUE]
    /\ pc' = "return"
    /\ UNCHANGED <<routes, op, cmd, args, cur, ret>>
    /\ UNCHANGED <<routeVars, threadVars>>

\* route_to returns what the target returned; asyncio.run of what a plain
\* function returned raises ValueError.
RouteToReturn ==
    /\ pc = "return"
    /\ ret' = IF Driver(cur.target) = "asyncio.run" /\ ~iscoroutinefunction(cur.target)
              THEN Raise("ValueError")
              ELSE Return(TargetValue(calls[Len(calls)]))
    /\ pc' = "idle"
    /\ cur' = NoneObj
    /\ UNCHANGED <<routes, op, cmd, args, calls>>
    /\ UNCHANGED <<routeVars, threadVars>>

\* The caller has read what its call returned or raised and drops it; the
\* router is ready for the next call.
Consume ==
    /\ pc = "idle" /\ op # None
    /\ op' = None
    /\ cmd' = <<>>
    /\ args' = <<>>
    /\ ret' = NoneObj
    /\ calls' = <<>>
    /\ UNCHANGED <<routes, pc, cur>>
    /\ UNCHANGED <<routeVars, threadVars>>

NextRouter ==
    \/ Register(RouterGrammars \cup BadGrammars, Targets)
    \/ RouterMatchCall
    \/ RouteTo
    \/ Invoke
    \/ TargetDone
    \/ RouteToReturn
    \/ Consume

SpecRouter == Init /\ [][NextRouter]_vars

\* ------------------------------------------- raw registration, threads
\* re.compile(src) for a source of the form ^(body)$: the body is parsed
\* as it is and no flag is set, so case is not folded.
re_compile(src) ==
    LET items == re_parse(Slice(src, 3, Len(src) - 2))
    IN  IF items = ReError THEN Raise("re.error")
        ELSE RegExRoutePattern(
                [groups |-> << [name |-> <<>>, alts |-> <<items>>] >>, icase |-> FALSE], None)

\* The grammar that RegExRoute builds from its patterns (lines 228-230):
\* the conditional binds weaker than +, so a pattern without an extension
\* contributes the empty string.
RECURSIVE RawGrammar(_, _)
RawGrammar(raws, i) ==
    IF i > Len(raws) THEN <<>>
    ELSE (IF raws[i].ext # "" THEN raws[i].pat \o <<"/", raws[i].ext>> ELSE <<>>)
         \o (IF i < Len(raws) THEN <<" ">> ELSE <<>>)
         \o RawGrammar(raws, i + 1)

\* RegExRoute(target, patterns=[RegExRoutePattern(re.compile(pat), ext) ...])
\* as routex builds it (lines 310-317); the first source that does not
\* compile raises.
RegExRouteInitRaw(target, raws) ==
    LET ps == [i \in 1..Len(raws) |-> re_compile(raws[i].pat)]
        bad == {i \in 1..Len(raws) : ~ps[i].ok}
    IN  IF bad # {}
        THEN ps[CHOOSE i \in bad : \A j \in bad : i <= j]
        ELSE [ok |-> TRUE, target |-> target, grammar |-> RawGrammar(raws, 1),
              patterns |-> [i \in 1..Len(raws) |-> [pat |-> ps[i].pat, ext |-> raws[i].ext]]]

\* The arguments of routex: no pattern, "a b*" and a source that does not
\* compile.
RawPatternLists ==
    { <<>>,
      << [pat |-> <<"^", "(", "a", ")", "$">>, ext |-> ""], [pat |-> <<"^", "(", "b", ")", "$">>, ext |-> "*"] >>,
      << [pat |-> <<"^", "(", "+", ")", "$">>, ext |-> ""] >> }

\* @router.routex(*raws) applied to the target t (lines 307-318).
RegisterRaw(TS) ==
    /\ pc = "idle" /\ op = None
    /\ Len(routes) < MaxRoutes
    /\ \E raws \in RawPatternLists, t \in TS :
        LET r == IF raws = <<>> THEN Raise("RegExRouteError") ELSE RegExRouteInitRaw(t, raws)
        IN  /\ routes' = IF r.ok THEN Append(routes, r) ELSE routes
            /\ ret' = IF r.ok THEN Return([kind |-> "target", by |-> t]) ELSE r
    /\ op' = "routex"
    /\ calls' = <<>>
    /\ UNCHANGED <<pc, cmd, args, cur>>
    /\ UNCHANGED <<routeVars, threadVars>>

\* The sentences of the threads.
ThreadSentences == { <<"a">>, <<"a", " ", "b">> }

\* Thread t calls router.match(c): matched = [] (line 323).
MatchEnter(t) ==
    /\ th[t].pc = "idle"
    /\ \E c \in ThreadSentences :
        th' = [th EXCEPT ![t] = [pc |-> "loop", c |-> c, i |-> 1, matched |-> <<>>,
                                 out |-> NoneObj]]
    /\ UNCHANGED <<routeVars, routerVars>>

\* One pass of the loop of match in thread t (lines 324-329).
MatchIter(t) ==
    /\ th[t].pc = "loop"
    /\ th[t].i <= Len(routes)
    /\ LET m == RouteMatch(routes[th[t].i], th[t].c)
           matched == th[t].matched
       IN  th' = [th EXCEPT ![t].i = @ + 1,
                            ![t].matched =
                                IF /\ m.conclusion
                                   /\ ~\E k \in 1..Len(matched) : m.target = matched[k].target
                                THEN Append(matched, m) ELSE matched]
    /\ UNCHANGED <<routeVars, routerVars>>

\* The loop of thread t is over: match raises or returns (lines 330-334).
MatchExit(t) ==
    /\ th[t].pc = "loop"
    /\ th[t].i > Len(routes)
    /\ th' = [th EXCEPT ![t].pc = "done",
                        ![t].out =
                            IF th[t].matched = <<>> THEN Raise("RegExParseError")
                            ELSE IF Len(th[t].matched) > 1 THEN Raise("RegExRouteError")
                            ELSE Return(th[t].matched[1])]
    /\ UNCHANGED <<routeVars, routerVars>>

\* Thread t has read what its call returned and drops it.
MatchDrop(t) ==
    /\ th[t].pc = "done"
    /\ th' = [th EXCEPT ![t] = IdleThread]
    /\ UNCHANGED <<routeVars, routerVars>>

\* The Router is built in a setup phase: registrations run while no thread
\* is inside match.
NoThreadInMatch == \A t \in Threads : th[t].pc = "idle"

\* The setup of the table specification: route registers f, routex
\* registers g.
TableGrammars == { <<"a">>, <<>> }

NextTable ==
    \/ NoThreadInMatch /\ Register(TableGrammars, {"f"})
    \/ NoThreadInMatch /\ RegisterRaw({"g"})
    \/ RouterMatchCall
    \/ RouteTo
    \/ Invoke
    \/ TargetDone
    \/ RouteToReturn
    \/ Consume
    \/ \E t \in Threads : MatchEnter(t)
    \/ \E t \in Threads : MatchIter(t)
    \/ \E t \in Threads : MatchExit(t)
    \/ \E t \in Threads : MatchDrop(t)

SpecTable == Init /\ [][NextTable]_vars

\* ------------------------------------------- claims on the sequence matcher

\* The grammar made of the given grammar tokens.
G1(r1) == Join(<<r1>>)
G2(r1, r2) == Join(<<r1, r2>>)
G3(r1, r2, r3) == Join(<<r1, r2, r3>>)

\* May a pattern with quantifier ext take k tokens?
CountAllowed(ext, k) ==
    CASE ext = "?" -> k \in {0, 1}
      [] ext = "*" -> k >= 0
      [] ext = "+" -> k >= 1
      [] OTHER -> k = 1

\* The reference semantics: can toks[j..] be cut, in order, into one group
\* per pattern of ps[i..], each of a size its quantifier allows and of tokens
\* its pattern matches?
RECURSIVE RegAccepts(_, _, _, _)
RegAccepts(ps, toks, i, j) ==
    IF i > Len(ps) THEN j > Len(toks)
    ELSE \E k \in 0..(Len(toks) - j + 1) :
            /\ CountAllowed(ps[i].ext, k)
            /\ \A t \in j..(j + k - 1) : PatMatches(ps[i].pat, toks[t])
            /\ RegAccepts(ps, toks, i + 1, j + k)

\* A match attempt has returned.
Matched == result # NoneObj

\* The number of tokens of the sentence, and whether all are the token t.
NTok == Len(shlex_split(sentence))
AllTok(t) == \A i \in 1..NTok : shlex_split(sentence)[i] = t

\* C1: a Route of the single literal a, bare or under ?, * or +, matches a
\* sentence exactly when all its tokens are a and their number is one the
\* quantifier allows (bare: 1; ?: 0 or 1; *: any; +: 1 or more).
C1_QuantifierLaws ==
    (Matched /\ Len(route.patterns) = 1 /\ grammar \in
        {G1(<<"a">>), G1(<<"[", "a", "]">>), G1(<<"[", "a", "]", "*">>),
         G1(<<"[", "a", "]", "+">>)})
    => (result.conclusion <=>
            (AllTok(<<"a">>) /\ CountAllowed(route.patterns[1].ext, NTok)))

\* C1 witness: a? has rejected the sentence "a a".
C1_Witness ==
    /\ Matched
    /\ grammar = G1(<<"[", "a", "]">>)
    /\ sentence = Join(<< <<"a">>, <<"a">> >>)
    /\ ~result.conclusion

\* C2: the Route "a<q> b" accepts exactly the sentences a^k b with k a count
\* the quantifier q allows.
C2_SequenceComposition ==
    (Matched /\ grammar \in
        {G2(<<"a">>, <<"b">>), G2(<<"[", "a", "]">>, <<"b">>),
         G2(<<"[", "a", "]", "*">>, <<"b">>), G2(<<"[", "a", "]", "+">>, <<"b">>)})
    => (result.conclusion <=>
            LET toks == shlex_split(sentence)
            IN  /\ NTok >= 1
                /\ toks[NTok] = <<"b">>
                /\ \A i \in 1..(NTok - 1) : toks[i] = <<"a">>
                /\ CountAllowed(route.patterns[1].ext, NTok - 1))

\* C2 witness: a* b has accepted "a a b".
C2_Witness ==
    /\ Matched
    /\ grammar = G2(<<"[", "a", "]", "*">>, <<"b">>)
    /\ sentence = Join(<< <<"a">>, <<"a">>, <<"b">> >>)
    /\ result.conclusion

\* C3 (as claimed): every sentence the reference semantics accepts is
\* matched by the Route.
C3_Complete ==
    (Matched /\ RegAccepts(route.patterns, shlex_split(sentence), 1, 1))
    => result.conclusion

\* C4: every sentence the Route matches is accepted by the reference
\* semantics.
C4_Sound ==
    (Matched /\ result.conclusion)
    => RegAccepts(route.patterns, shlex_split(sentence), 1, 1)

\* C4 witness: a Route of three patterns, one of them the named argument,
\* has matched a sentence of three tokens.
C4_Witness ==
    /\ Matched
    /\ result.conclusion
    /\ NTok = 3
    /\ grammar = G3(<<"[", "a", "]", "*">>, <<"<", "x", ">">>, <<"[", "c", "]", "*">>)

\* C9: the Route "a* c* b" matches "a a b", "a c b" and "c b", and in "c b"
\* the slot of the token c holds the match of the c-pattern (pattern 1).
C9_SidewaysShift ==
    (Matched /\ grammar = G3(<<"[", "a", "]", "*">>, <<"[", "c", "]", "*">>, <<"b">>))
    => /\ sentence \in {Join(<< <<"a">>, <<"a">>, <<"b">> >>),
                        Join(<< <<"a">>, <<"c">>, <<"b">> >>),
                        Join(<< <<"c">>, <<"b">> >>)}
            => result.conclusion
       /\ sentence = Join(<< <<"c">>, <<"b">> >>)
            => result.matches[0] = MatchObj(1, <<"c">>)

\* C9 witness: a* c* b has matched "c b".
C9_Witness ==
    /\ Matched
    /\ grammar = G3(<<"[", "a", "]", "*">>, <<"[", "c", "]", "*">>, <<"b">>)
    /\ sentence = Join(<< <<"c">>, <<"b">> >>)
    /\ result.conclusion

\* ------------------------------------------- claims on the literal compiler

\* str.lower() of a string.
LowerStr(s) == [i \in 1..Len(s) |-> Lower(s[i])]

\* The construction of the Route has returned or raised.
Built == route # NoneObj

\* C7 (as claimed): a grammar of literal tokens builds a Route, the Route
\* matches the sentence equal to the grammar, and positional(i) of the result
\* is literal i.
C7_LiteralGrammarMatchesItself ==
    /\ Built => route.ok
    /\ (Matched /\ sentence = grammar)
        => /\ result.conclusion
           /\ \A i \in 0..(NTok - 1) :
                positional(result, route.patterns, i)
                    = [kind |-> "str", v |-> shlex_split(grammar)[i + 1]]

\* C8 (as claimed): the pattern compiled from the literal L matches a token
\* t exactly when t equals L up to case.
C8_LiteralMatchesOnlyItself ==
    (Matched /\ Len(route.patterns) = 1 /\ sentence \in Literals)
    => (pattern_match(route.patterns[1], sentence)
            <=> LowerStr(sentence) = LowerStr(grammar))

\* ------------------------------------------------------ claims on the router

\* The routes of the table that match the sentence of the call, and their
\* targets.
Matching == {i \in 1..Len(routes) : RouteMatch(routes[i], cmd).conclusion}
MatchingTargets == {routes[i].target : i \in Matching}

\* A call of router.match has returned or raised.
MatchReturned == op = "match" /\ pc = "idle"

\* C5: router.match raises RegExParseError when no Route matches,
\* RegExRouteError when the matching Routes have two or more distinct targets,
\* and returns a successful RegExRouteMatch of the one target otherwise.
C5_OutcomeByTargetCount ==
    MatchReturned =>
        /\ Cardinality(MatchingTargets) = 0 => ret = Raise("RegExParseError")
        /\ Cardinality(MatchingTargets) >= 2 => ret = Raise("RegExRouteError")
        /\ Cardinality(MatchingTargets) = 1 =>
            /\ ret.ok
            /\ ret.value.conclusion
            /\ ret.value.target \in MatchingTargets

\* C5 witness: three Routes match the sentence, two of them with one target
\* and the third with another, and router.match has raised RegExRouteError.
C5_Witness ==
    /\ MatchReturned
    /\ Cardinality(Matching) = 3
    /\ Cardinality(MatchingTargets) = 2
    /\ ret = Raise("RegExRouteError")

\* C6: when several matching Routes all have the same target, router.match
\* raises nothing and returns the result of the first of them in
\* registration order.
C6_FirstMatchOfTarget ==
    (MatchReturned /\ Cardinality(Matching) >= 2 /\ Cardinality(MatchingTargets) = 1)
    => LET first == CHOOSE i \in Matching : \A j \in Matching : i <= j
       IN  ret = Return(RouteMatch(routes[first], cmd))

\* C6 witness: two Routes of one target with different grammars match the
\* sentence, no Route of another target does, and router.match has returned a
\* result.
C6_Witness ==
    /\ MatchReturned
    /\ Cardinality(Matching) >= 2
    /\ Cardinality(MatchingTargets) = 1
    /\ \E i, j \in Matching : i < j /\ routes[i].grammar # routes[j].grammar
    /\ ret.ok

\* C10: route_to resolves the sentence first; it starts no run of a target
\* before that or when match raised, and then the error of match is what the
\* caller gets; otherwise it starts exactly one run, of the matched target
\* with the match result and the extra arguments, and returns the value of
\* that run only after the run has completed.
C10_Dispatch ==
    op = "route_to" =>
        LET r == RouterMatch(routes, cmd)
        IN  /\ pc = "invoke" => calls = <<>> /\ r.ok /\ cur = r.value
            /\ pc \in {"running", "return"} =>
                /\ Len(calls) = 1
                /\ calls[1].target = r.value.target
                /\ calls[1].m = r.value
                /\ calls[1].args = args
                /\ pc = "return" => calls[1].done
            /\ (pc = "idle" /\ ~r.ok) =>
                /\ calls = <<>>
                /\ ret = r
                /\ ret.err \in {"RegExParseError", "RegExRouteError"}
            /\ (pc = "idle" /\ r.ok) =>
                /\ Len(calls) = 1
                /\ calls[1] = [target |-> r.value.target, m |-> r.value,
                               args |-> args, done |-> TRUE]
                /\ ret = Return(TargetValue(calls[1]))

\* C10 witness: route_to has returned the value of the coroutine function h,
\* called with an extra argument.
C10_Witness ==
    /\ op = "route_to" /\ pc = "idle"
    /\ ret.ok
    /\ ret.value.by = "h"
    /\ args = <<"k">>
    /\ Len(calls) = 1 /\ calls[1].done

\* C10 witness of the error path: route_to has raised RegExRouteError on a
\* table that holds Routes.
C10_ErrorWitness ==
    /\ op = "route_to" /\ pc = "idle"
    /\ ret = Raise("RegExRouteError")
    /\ calls = <<>>

\* ------------------------------------------------------- captures by name
\* The names a caller asks for: declared names, keys seen in sentences, and
\* a name nothing carries.
CaptureNames ==
    { <<"f", "i", "l", "t", "e", "r", "_", "n", "a", "m", "e">>, <<"f", "i", "l", "t", "e", "r", "_", "v", "a", "l", "u", "e">>, <<"+", "p", "a", "t", "h">>, <<"-", "f", "o", "r", "k">>,
      <<"y">>, <<"z">>, <<"x">> }

\* The slots of the result that hold a concrete match, in sentence order.
ConcreteSlots ==
    SelectSeq([i \in 1..NSlots(result) |-> i - 1],
              LAMBDA i : Truthy(result.matches[i]))

\* (a) the captures of the groups declared with the name.
ByDeclaration(name) ==
    LET I == SelectSeq(ConcreteSlots,
                LAMBDA i : name \in GroupNames(route.patterns, result.matches[i]))
    IN  [j \in 1..Len(I) |-> GroupNamed(route.patterns, result.matches[I[j]], name)]

\* (b) the values of the key/value pairs whose captured key is the name.
ByKey(name) ==
    LET I == SelectSeq(ConcreteSlots,
                LAMBDA i : /\ Len(Groups(route.patterns, result.matches[i])) = 2
                           /\ Groups(route.patterns, result.matches[i])[1] = name)
    IN  [j \in 1..Len(I) |-> Groups(route.patterns, result.matches[I[j]])[2]]

\* The aggregated list: (b) when it is non-empty, otherwise (a).
Aggregated(name) == IF ByKey(name) # <<>> THEN ByKey(name) ELSE ByDeclaration(name)

\* The outcome the rule prescribes, given what an empty list returns.
NamedOutcome(name, flat, raiseIfMissing, nothing) ==
    LET agg == Aggregated(name)
    IN  IF Len(agg) = 1 /\ flat THEN [kind |-> "str", v |-> agg[1]]
        ELSE IF agg = <<>>
             THEN IF raiseIfMissing THEN Raise("KeyError") ELSE nothing
             ELSE [kind |-> "list", v |-> agg]

\* C11 (as stated): named(name) aggregates (a) the declared captures and (b)
\* the key/value values, (b) winning when non-empty; one element and flat
\* gives the string, an empty list gives nothing (None) or the not-found
\* error when raiseIfMissing is set, anything else gives the ordered list.
C11_NamedAggregation ==
    Matched =>
        \A name \in CaptureNames : \A flat \in BOOLEAN : \A raiseIfMissing \in BOOLEAN :
            named(result, route.patterns, name, flat, raiseIfMissing)
                = NamedOutcome(name, flat, raiseIfMissing, NoneObj)

\* C11 (amended): the same rule, but an empty aggregated list is returned as
\* the empty list when raiseIfMissing is not set.
C11_NamedAggregationEmptyList ==
    Matched =>
        \A name \in CaptureNames : \A flat \in BOOLEAN : \A raiseIfMissing \in BOOLEAN :
            named(result, route.patterns, name, flat, raiseIfMissing)
                = NamedOutcome(name, flat, raiseIfMissing, [kind |-> "list", v |-> <<>>])

\* A result where a name is carried both by a declared group and by a key
\* (the key's value wins), and another name is carried by nothing.
C11_Witness ==
    /\ Matched
    /\ result.conclusion
    /\ ByDeclaration(<<"y">>) # <<>>
    /\ ByKey(<<"y">>) # <<>>
    /\ ByKey(<<"y">>) # ByDeclaration(<<"y">>)
    /\ Aggregated(<<"x">>) = <<>>
    /\ named(result, route.patterns, <<"x">>, TRUE, TRUE) = Raise("KeyError")

\* ------------------------------------------------ the filter example
FilterGrammar == <<"[", "<", "f", "i", "l", "t", "e", "r", "_", "n", "a", "m", "e", ">", ":", "<", "f", "i", "l", "t", "e", "r", "_", "v", "a", "l", "u", "e", ">", "]", "+">>
FilterSentence == <<"+", "p", "a", "t", "h", ":", "x", " ", "-", "f", "o", "r", "k", ":", "y", " ", "+", "p", "a", "t", "h", ":", "z">>
FilterExample == Matched /\ grammar = FilterGrammar /\ sentence = FilterSentence

\* C12 (as stated): "[<filter_name>:<filter_value>]+" on "+path:x -fork:y
\* +path:z" succeeds; named('filter_name') is ['+path', '-fork', '+path'],
\* named('+path') is ['x', 'z'] with flat false and 'x' with flat true, and
\* named('-fork') is 'y'.
C12_FilterExample ==
    FilterExample =>
        /\ result.conclusion
        /\ named(result, route.patterns, <<"f", "i", "l", "t", "e", "r", "_", "n", "a", "m", "e">>, TRUE, FALSE)
             = [kind |-> "list", v |-> <<<<"+", "p", "a", "t", "h">>, <<"-", "f", "o", "r", "k">>, <<"+", "p", "a", "t", "h">>>>]
        /\ named(result, route.patterns, <<"+", "p", "a", "t", "h">>, FALSE, FALSE)
             = [kind |-> "list", v |-> <<<<"x">>, <<"z">>>>]
        /\ named(result, route.patterns, <<"+", "p", "a", "t", "h">>, TRUE, FALSE)
             = [kind |-> "str", v |-> <<"x">>]
        /\ named(result, route.patterns, <<"-", "f", "o", "r", "k">>, TRUE, FALSE)
             = [kind |-> "str", v |-> <<"y">>]

\* C12 (amended): as above, but named('+path') is ['x', 'z'] with flat true
\* as well: a list of two elements is never flattened.
C12_FilterExampleListKept ==
    FilterExample =>
        /\ result.conclusion
        /\ named(result, route.patterns, <<"f", "i", "l", "t", "e", "r", "_", "n", "a", "m", "e">>, TRUE, FALSE)
             = [kind |-> "list", v |-> <<<<"+", "p", "a", "t", "h">>, <<"-", "f", "o", "r", "k">>, <<"+", "p", "a", "t", "h">>>>]
        /\ \A flat \in BOOLEAN :
             named(result, route.patterns, <<"+", "p", "a", "t", "h">>, flat, FALSE)
               = [kind |-> "list", v |-> <<<<"x">>, <<"z">>>>]
        /\ named(result, route.patterns, <<"-", "f", "o", "r", "k">>, TRUE, FALSE)
             = [kind |-> "str", v |-> <<"y">>]

\* The example has been matched and its three tokens fill three slots.
C12_Witness ==
    /\ FilterExample
    /\ result.conclusion
    /\ Len(ConcreteSlots) = 3
    /\ Len(ByKey(<<"+", "p", "a", "t", "h">>)) = 2

\* ------------------------------------------------- failed registrations
\* The step is a call of the decorator of route.
RegisterStep == op = None /\ op' = "route"

\* The errors of the pattern compiler.
GrammarErrors == {"SyntaxError", "re.error"}

\* The grammar has a token that the pattern compiler rejects.
HasBadToken(g) ==
    \E i \in 1..Len(shlex_split(g)) : ~from_meta_pattern(shlex_split(g)[i]).ok

\* C13: a registration with an empty grammar raises RegExRouteError, one
\* with a token that does not compile raises a grammar error, and a failed
\* registration leaves the route table, and so every later match, as it was.
C13_FailedRegistrationKeepsTable ==
    [][RegisterStep =>
        /\ cmd' = <<>> => ret' = Raise("RegExRouteError")
        /\ (cmd' # <<>> /\ HasBadToken(cmd')) =>
                ~ret'.ok /\ ret'.err \in GrammarErrors
        /\ ~ret'.ok =>
                /\ routes' = routes
                /\ \A c \in RouterSentences :
                        RouterMatch(routes', c) = RouterMatch(routes, c)]_vars

\* A registration has failed on a table that holds Routes.
C13_Witness ==
    /\ op = "route"
    /\ ~ret.ok
    /\ ret.err \in GrammarErrors
    /\ HasBadToken(cmd)
    /\ Len(routes) >= 1

\* ------------------------------------------- append-only table, pure match
\* The step is a call of the decorator of route or of routex.
RegistrationStep == op = None /\ op' \in {"route", "routex"}

\* A successful registration appends one Route, bound to the decorated
\* target, behind the Routes there were; every other step leaves the table
\* alone.
TableStep ==
    IF RegistrationStep /\ ret'.ok
    THEN /\ Len(routes') = Len(routes) + 1
         /\ SubSeq(routes', 1, Len(routes)) = routes
         /\ routes'[Len(routes')].target = ret'.value.by
    ELSE routes' = routes

\* A call of match that has returned would return the same on the table as
\* it stands: for the caller of match, for route_to, and for the threads.
MatchRepeatable ==
    /\ MatchReturned => ret = RouterMatch(routes, cmd)
    /\ (op = "route_to" /\ pc = "invoke") => Return(cur) = RouterMatch(routes, cmd)
    /\ \A t \in Threads :
            th[t].pc = "done" => th[t].out = RouterMatch(routes, th[t].c)
    /\ \A t, u \in Threads :
            (th[t].pc = "done" /\ th[u].pc = "done" /\ th[t].c = th[u].c)
                => th[t].out = th[u].out

\* C14: the route table changes only by a successful register or routex
\* appending its Route; match and route_to leave it as it is, and calls of
\* match with the same sentence on the same table, interleaved between
\* threads or not, return the same outcome.
C14_AppendOnlyPureMatch == [][TableStep]_vars /\ []MatchRepeatable

\* Two threads have finished match on the same sentence while the table
\* holds a Route of route and a Route of routex, and the caller's own match
\* has returned.
C14_Witness ==
    /\ Len(routes) >= 2
    /\ \E i, j \in 1..Len(routes) :
            routes[i].grammar = <<"a">> /\ routes[j].grammar # <<"a">>
    /\ th[1].pc = "done" /\ th[2].pc = "done"
    /\ th[1].c = th[2].c
    /\ MatchReturned
    /\ ret.ok

\* ------------------------------------------------ positional, acceptance
\* C15: positional(i) raises IndexError exactly for the i outside
\* [0, tokenCount), negative i and i = tokenCount included, whether the
\* result is a success or not.
C15_PositionalRange ==
    Matched =>
        \A i \in (-MaxToks - 1)..(MaxToks + 1) :
            (positional(result, route.patterns, i) = Raise("IndexError"))
                <=> ~(0 <= i /\ i < NTok)

\* An unsuccessful result of two tokens, one slot filled and one empty, has
\* been asked inside and outside the range.
C15_Witness ==
    /\ Matched
    /\ ~result.conclusion
    /\ NTok = 2
    /\ positional(result, route.patterns, 0) = [kind |-> "str", v |-> <<"a">>]
    /\ positional(result, route.patterns, 1) = NoneObj
    /\ positional(result, route.patterns, -1) = Raise("IndexError")
    /\ positional(result, route.patterns, 2) = Raise("IndexError")

\* The table when the loops of match on the sentence have ended.
FinalTable == DPRun(route.patterns, shlex_split(sentence))

\* The slot holds a concrete match.
Concrete(m) == m # NoneCell /\ m # em

\* C16: match reports success exactly when cell (N, P) is reachable and
\* every slot holds a concrete match; on a success every token has been
\* consumed, its slot holding the match of a pattern on that very token.
C16_Acceptance ==
    Matched =>
        /\ LET st == FinalTable
           IN  result.conclusion <=>
                /\ st.dp[NTok][Len(route.patterns)] # NoneCell
                /\ \A i \in 0..(NTok - 1) : Concrete(st.matches[i])
        /\ result.conclusion =>
                \A i \in 0..(NTok - 1) :
                    /\ Concrete(result.matches[i])
                    /\ result.matches[i].string = shlex_split(sentence)[i + 1]
                    /\ pattern_match(route.patterns[result.matches[i].re + 1],
                                     shlex_split(sentence)[i + 1])

\* Every slot is concrete and yet the last cell is unreachable: the
\* sentence ends before the patterns do.
C16_Witness ==
    /\ Matched
    /\ NTok >= 1
    /\ \A i \in 0..(NTok - 1) : Concrete(result.matches[i])
    /\ FinalTable.dp[NTok][Len(route.patterns)] = NoneCell
    /\ ~result.conclusion

\* ------------------------------------------------------ legal alignment
\* The pattern that produced slot i, and the slots a pattern produced.
SlotPattern(i) == result.matches[i].re
SlotsOf(pi) == {i \in 0..(NTok - 1) : SlotPattern(i) = pi}

\* C17: on a success the pattern index is non-decreasing over the slots,
\* a pattern without quantifier or with + produced at least one slot, and a
\* pattern without quantifier or with ? produced at most one.
C17_LegalAlignment ==
    (Matched /\ result.conclusion) =>
        /\ \A i, j \in 0..(NTok - 1) : i <= j => SlotPattern(i) <= SlotPattern(j)
        /\ \A pi \in 0..(Len(route.patterns) - 1) :
            LET ext == route.patterns[pi + 1].ext
            IN  /\ ext \in {None, "+"} => Cardinality(SlotsOf(pi)) >= 1
                /\ ext \in {None, "?"} => Cardinality(SlotsOf(pi)) <= 1

\* ------------------------------------------------------------ base cases
\* C18: in row 0 cell (0, pi + 1) is zero-width exactly when cell (0, pi)
\* is and pattern pi is optional, and is unreachable otherwise; the empty
\* sentence succeeds exactly when every pattern is optional; cell
\* (si + 1, 0) is unreachable, and on a success of a non-empty sentence a
\* pattern has consumed the first token.
C18_BaseCases ==
    Matched =>
        LET dp == FinalTable.dp
            np == Len(route.patterns)
        IN  /\ dp[0][0] = em
            /\ \A pi \in 0..(np - 1) :
                    /\ dp[0][pi + 1] = em <=>
                            (dp[0][pi] = em /\ route.patterns[pi + 1].ext \in {"?", "*"})
                    /\ dp[0][pi + 1] # em => dp[0][pi + 1] = NoneCell
            /\ NTok = 0 =>
                    (result.conclusion <=>
                        \A pi \in 0..(np - 1) : route.patterns[pi + 1].ext \in {"?", "*"})
            /\ \A si \in 0..(NTok - 1) : dp[si + 1][0] = NoneCell
            /\ (NTok >= 1 /\ result.conclusion) => Concrete(result.matches[0])

\* The empty sentence has met a Route of two or more patterns, all of them
\* optional, and has been accepted.
C18_Witness ==
    /\ Matched
    /\ NTok = 0
    /\ Len(route.patterns) >= 2
    /\ \A pi \in 0..(Len(route.patterns) - 1) : route.patterns[pi + 1].ext \in {"?", "*"}
    /\ result.conclusion

\* ------------------------------------------------- the top-down into branch
\* The states of the table during match on the sentence.
TableStates ==
    DPTrace(InitTable(route.patterns, shlex_split(sentence)),
            route.patterns, shlex_split(sentence), 0)

\* The guards of the two transitions before pass k (token si, pattern pi).
IntoGuard(st, si, pi) ==
    /\ st.dp[si][pi + 1] = em
    /\ route.patterns[pi + 1].ext \in {"?", "*"}
    /\ PatMatches(route.patterns[pi + 1].pat, shlex_split(sentence)[si + 1])
DiagonalGuard(st, si, pi) ==
    /\ Truthy(st.dp[si][pi])
    /\ PatMatches(route.patterns[pi + 1].pat, shlex_split(sentence)[si + 1])

\* C20: in every state of the table a zero-width cell (s, p + 1) has a
\* reachable cell (s, p) before it; so before every pass the guard of
\* top-down into implies the guard of diagonal, and no cell is ever set by
\* top-down into.
C20_TopDownIntoNeverFires ==
    Matched =>
        LET np == Len(route.patterns)
            ts == TableStates
        IN  /\ \A k \in 1..Len(ts) :
                    \A s \in 0..NTok : \A p \in 0..(np - 1) :
                        ts[k].dp[s][p + 1] = em
                            => ts[k].dp[s][p] # NoneCell
            /\ \A k \in 1..(Len(ts) - 1) :
                    /\ IntoGuard(ts[k], (k - 1) \div np, (k - 1) % np)
                            => DiagonalGuard(ts[k], (k - 1) \div np, (k - 1) % np)
                    /\ ts[k + 1].rules[(k - 1) \div np][(k - 1) % np]
                            # "top-down into"
            /\ ts[Len(ts)] = FinalTable

\* A pass has met the guard of top-down into, and the diagonal transition
\* has set the cell.
C20_Witness ==
    /\ Matched
    /\ LET np == Len(route.patterns)
           ts == TableStates
       IN  \E k \in 1..(Len(ts) - 1) :
            /\ IntoGuard(ts[k], (k - 1) \div np, (k - 1) % np)
            /\ ts[k + 1].rules[(k - 1) \div np][(k - 1) % np] = "diagonal"

\* -------------------------------------------------- registration order
\* The table with its Routes in the order given by the permutation f.
Reordered(rs, f) == [i \in 1..Len(rs) |-> rs[f[i]]]

\* What a caller of match tells apart: the error raised, or the target of
\* the result returned.
OutcomeClass(r) == IF r.ok THEN <<"returned", r.value.target>> ELSE <<"raised", r.err>>

\* C19: match on any reordering of the route table ends as match on the
\* table did: the same error, or a result bound to the same target.
C19_OrderIndependent ==
    MatchReturned =>
        \A f \in Permutations(1..Len(routes)) :
            OutcomeClass(RouterMatch(Reordered(routes, f), cmd)) = OutcomeClass(ret)

\* A sentence that two of three Routes match, both of one target, has been
\* matched: a reordering changes the Route that answers but not its target.
C19_Witness ==
    /\ MatchReturned
    /\ ret.ok
    /\ Len(routes) = 3
    /\ Cardinality(Matching) = 2
    /\ \E f \in Permutations(1..Len(routes)) :
            /\ RouterMatch(Reordered(routes, f), cmd) # ret
            /\ RouterMatch(Reordered(routes, f), cmd).ok

====
